---- MODULE Spec2Model ----
(***************************************************************************)
(* EduQuest: the generate-verify-score pipeline.                           *)
(*                                                                         *)
(*   backend/main.py                      verify_question_with_rag,        *)
(*                                        generate_questions, check_answers*)
(*   backend/agents/question_generator.py QuestionGenerator                *)
(*   backend/services/rag_service.py      RAGService                       *)
(*                                                                         *)
(* Scores are floats in the source.  Here a score is an integer number of  *)
(* ticks, Unit ticks to 1.0; every score the model draws is a whole number *)
(* of hundredths, so the weighted sum, the 2-way and the 3-way mean are    *)
(* exact.  The rating strings of the source are Korean; they are written   *)
(* here as very_appropriate, appropriate, inappropriate.                   *)
(***************************************************************************)
EXTENDS Integers, Sequences, FiniteSets, TLC

VARIABLES
    \* ---- one call of a verifier (SpecVerify)
    vpc,        \* "idle" | "done"
    vimpl,      \* "main" (verify_question_with_rag) | "qg" (QuestionGenerator.verify_question)
    vq,         \* the question handed to the verifier
    venv,       \* what the embedding model and the judgment model answer
    vout,       \* the call's outcome: Return(result) or Raise(exception)
    \* ---- one generation request (Spec)
    impl,       \* "main" (the endpoint) | "qg" (QuestionGenerator.generate_questions)
    pc,         \* "request" | "retry" | "loop" | "returned" | "failed"
    calls,      \* the prompts sent to the generation model, in order
    parses,     \* per generation call: did its response parse as JSON
    generated_questions,  \* the parsed "questions" list (dicts are mutated in place)
    i,          \* position of the for loop over generated_questions
    verified_questions,   \* the list being built: positions of its dicts in generated_questions
    verifications,        \* per verifier call: <<question index, outcome>>
    error,      \* the exception the request ends with, NoError if none
    \* ---- normalize_answer applied to a string, then to its own result (SpecNorm)
    npc,        \* "input" | "once" | "twice"
    nx,         \* the string
    n1,         \* normalize_answer(nx)
    n2,         \* normalize_answer(normalize_answer(nx))
    \* ---- one grading request, main.check_answers (SpecGrade)
    cpc,        \* "grading" | "returned" | "failed"
    answers,    \* data["answers"]
    a,          \* position of the for loop over answers
    processed_answers,
    grade_total,   \* total_score of check_answers
    similarity_log,  \* per graded answer: was a similarity computed
    grade_error,   \* the exception the request ends with, NoError if none
    \* ---- one call of RAGService.extract_relevant_context (SpecChunk)
    xpc,        \* "call" | "returned" | "failed"
    document,   \* document.split(): the words, each written as its position
    chunk_size,
    top_k,
    chunks,     \* the chunks, each the sequence of its words
    similarities,  \* per chunk, the similarity to the query the embedding model gave
    relevant,   \* the list returned
    xerror      \* the exception the call ends with, "" if none

vvars == <<vpc, vimpl, vq, venv, vout>>
gvars == <<impl, pc, calls, parses, generated_questions, i, verified_questions,
           verifications, error>>
nvars == <<npc, nx, n1, n2>>
cvars == <<cpc, answers, a, processed_answers, grade_total, similarity_log, grade_error>>
xvars == <<xpc, document, chunk_size, top_k, chunks, similarities, relevant, xerror>>
vars == <<vvars, gvars, nvars, cvars, xvars>>

-----------------------------------------------------------------------------
(* Scores *)

\* 1.0 in ticks: divisible by 100 (hundredths), by 10 (the weights), by 2 and 3 (the means)
Unit == 60 * 100

Hundredths(n) == (n * Unit) \div 100

\* the acceptance threshold 0.6
VALID_THRESHOLD == Hundredths(60)

-----------------------------------------------------------------------------
(* Exceptions: a call either returns a value or raises *)

Return(v) == [kind |-> "return", value |-> v]
Raise(e) == [kind |-> "raise", exc |-> e]

\* no exception has ended the request
NoError == [type |-> "", cause |-> ""]

-----------------------------------------------------------------------------
(* Inputs of a verification *)

\* a generated question, as far as the verifiers read it: is the "question" key
\* there, and is "explanation" absent, empty after preprocess_text, or a text
QuestionDicts ==
    [dict : {TRUE}, id : {""}, question : {"absent", "text"},
     explanation : {"absent", "empty", "text"}]

\* an element of the "questions" list that is no JSON object (a string, a number)
NotADict == [dict |-> FALSE, id |-> "", question |-> "absent", explanation |-> "absent"]

Questions == QuestionDicts \cup {NotADict}

\* cosine similarities, in hundredths
Similarities == {Hundredths(0 - 30), Hundredths(55), Hundredths(60), Hundredths(65)}

\* the average_score the judgment model reports, in hundredths
AverageScores == {Hundredths(0), Hundredths(40), Hundredths(90), Hundredths(100),
                  Hundredths(130)}

Ratings == {"very_appropriate", "appropriate", "inappropriate", "other"}

\* the judgment call: it raises, or its text does not parse as JSON, or it parses
\* but lacks an expected key, or it is the full document
JudgeReplies ==
    [kind : {"raise", "unparseable", "incomplete"}, result : {"N"},
     rating : {"other"}, average_score : {0}]
    \cup
    [kind : {"full"}, result : {"Y", "N"}, rating : Ratings,
     average_score : AverageScores]

Envs ==
    [embed_ok : {TRUE}, q_similarity : Similarities, a_similarity : Similarities,
     e_similarity : Similarities, judge : JudgeReplies]
    \cup
    [embed_ok : {FALSE}, q_similarity : {0}, a_similarity : {0},
     e_similarity : {0}, judge : [kind : {"raise"}, result : {"N"},
                                  rating : {"other"}, average_score : {0}]]

-----------------------------------------------------------------------------
(* The scoring formula, the same text in both verifiers *)

hallucination_score(judge) == IF judge.result = "Y" THEN Hundredths(100) ELSE Hundredths(0)

\* mutant: the middle rating scored as 0.5
quality_score_half(judge) ==
    IF judge.rating = "very_appropriate" THEN Hundredths(100)
    ELSE IF judge.rating = "appropriate" THEN Hundredths(50)
    ELSE Hundredths(30)

quality_score(judge) ==
    IF judge.rating = "very_appropriate" THEN Hundredths(100)
    ELSE IF judge.rating = "appropriate" THEN Hundredths(70)
    ELSE Hundredths(30)

semantic_score(judge) == judge.average_score

total_score(judge) ==
    (hallucination_score(judge) * 4) \div 10
    + (quality_score(judge) * 3) \div 10
    + (semantic_score(judge) * 3) \div 10

\* mutant: the threshold taken as strict
is_valid_strict(score) == score > VALID_THRESHOLD

is_valid(score) == score >= VALID_THRESHOLD

\* the "hallucination_check", "quality_check", "semantic_consistency" objects copied
\* from the judgment into the result
JudgmentFields(judge) ==
    [hallucination_check |-> [result |-> judge.result],
     quality_check |-> [rating |-> judge.rating],
     semantic_consistency |-> [average_score |-> judge.average_score]]

-----------------------------------------------------------------------------
(* main.verify_question_with_rag *)

\* mutant: the three similarities divided by two
main_average_by_two(env) == (env.q_similarity + env.a_similarity + env.e_similarity) \div 2

main_average(env) == (env.q_similarity + env.a_similarity + env.e_similarity) \div 3

main_embedding_similarity(env) ==
    [question |-> env.q_similarity, answer |-> env.a_similarity,
     explanation |-> env.e_similarity, average |-> main_average(env)]

\* the except Exception handler of lines 200-208
main_error_result(e) == [error |-> e, is_valid |-> FALSE]

verify_question_with_rag(q, env) ==
    \* question["question"] raises TypeError, and question.get of the handler
    \* (line 203) raises AttributeError out of the function
    IF ~q.dict THEN Raise("AttributeError")
    ELSE IF ~env.embed_ok THEN Return(main_error_result("EmbeddingError"))
    ELSE IF q.question = "absent" THEN Return(main_error_result("KeyError"))
    ELSE IF q.explanation = "absent" THEN Return(main_error_result("KeyError"))
    ELSE IF env.judge.kind = "raise" THEN Return(main_error_result("ModelError"))
    ELSE IF env.judge.kind = "unparseable" THEN
        Return([embedding_similarity |-> main_embedding_similarity(env),
                total_score |-> main_average(env),
                is_valid |-> is_valid(main_average(env)),
                error |-> "LLM response parse failure"])
    ELSE IF env.judge.kind = "incomplete" THEN Return(main_error_result("KeyError"))
    ELSE
        Return([embedding_similarity |-> main_embedding_similarity(env),
                hallucination_check |-> JudgmentFields(env.judge).hallucination_check,
                quality_check |-> JudgmentFields(env.judge).quality_check,
                semantic_consistency |-> JudgmentFields(env.judge).semantic_consistency,
                total_score |-> total_score(env.judge),
                is_valid |-> is_valid(total_score(env.judge))])

-----------------------------------------------------------------------------
(* RAGService.compute_question_similarity and QuestionGenerator.verify_question *)

compute_question_similarity(q, env) ==
    IF ~env.embed_ok THEN Raise("EmbeddingError")
    ELSE IF ~q.dict THEN Raise("TypeError")
    ELSE IF q.question = "absent" THEN Raise("KeyError")
    ELSE
        LET has_explanation == q.explanation = "text"
            e_similarity == IF has_explanation THEN env.e_similarity ELSE 0
            avg_similarity ==
                IF has_explanation
                THEN (env.q_similarity + env.a_similarity + e_similarity) \div 3
                ELSE (env.q_similarity + env.a_similarity) \div 2
        IN Return([question_similarity |-> env.q_similarity,
                   answer_similarity |-> env.a_similarity,
                   explanation_similarity |-> e_similarity,
                   average_similarity |-> avg_similarity,
                   is_valid |-> is_valid(avg_similarity)])

qg_embedding_similarity(similarity_result) ==
    [question |-> similarity_result.question_similarity,
     answer |-> similarity_result.answer_similarity,
     explanation |-> similarity_result.explanation_similarity,
     average |-> similarity_result.average_similarity]

verify_question(q, env) ==
    LET sim == compute_question_similarity(q, env) IN
    IF sim.kind = "raise" THEN sim
    ELSE IF env.judge.kind = "raise" THEN Raise("ModelError")
    ELSE IF env.judge.kind = "unparseable" THEN
        Return([embedding_similarity |-> qg_embedding_similarity(sim.value),
                total_score |-> sim.value.average_similarity,
                is_valid |-> sim.value.is_valid,
                error |-> "LLM response parse failure"])
    ELSE IF env.judge.kind = "incomplete" THEN Raise("KeyError")
    ELSE
        Return([embedding_similarity |-> qg_embedding_similarity(sim.value),
                hallucination_check |-> JudgmentFields(env.judge).hallucination_check,
                quality_check |-> JudgmentFields(env.judge).quality_check,
                semantic_consistency |-> JudgmentFields(env.judge).semantic_consistency,
                total_score |-> total_score(env.judge),
                is_valid |-> is_valid(total_score(env.judge))])

\* the verifier an implementation of the pipeline calls
Verify(which, q, env) ==
    IF which = "main" THEN verify_question_with_rag(q, env) ELSE verify_question(q, env)

-----------------------------------------------------------------------------
(* The state of each part before it is used *)

GenIdle ==
    /\ impl = "main"
    /\ pc = "request"
    /\ calls = <<>>
    /\ parses = <<>>
    /\ generated_questions = <<>>
    /\ i = 1
    /\ verified_questions = <<>>
    /\ verifications = <<>>
    /\ error = NoError

VerifyIdle ==
    /\ vpc = "idle"
    /\ vimpl = "main"
    /\ vq = [dict |-> TRUE, id |-> "", question |-> "text", explanation |-> "text"]
    /\ venv = CHOOSE e \in Envs : ~e.embed_ok
    /\ vout = Return([is_valid |-> FALSE])

NormIdle ==
    /\ npc = "input"
    /\ nx = <<>>
    /\ n1 = <<>>
    /\ n2 = <<>>

GradeIdle ==
    /\ cpc = "grading"
    /\ answers = <<>>
    /\ a = 1
    /\ processed_answers = <<>>
    /\ grade_total = 0
    /\ similarity_log = <<>>
    /\ grade_error = NoError

ChunkIdle ==
    /\ xpc = "call"
    /\ document = <<>>
    /\ chunk_size = 2
    /\ top_k = 0
    /\ chunks = <<>>
    /\ similarities = <<>>
    /\ relevant = <<>>
    /\ xerror = ""

-----------------------------------------------------------------------------
(* SpecVerify: one call of one verifier on any question and any answers of the models *)

VerifyInit == VerifyIdle /\ GenIdle /\ NormIdle /\ GradeIdle /\ ChunkIdle

VerifyMain ==
    /\ vpc = "idle"
    /\ \E q \in Questions, env \in Envs :
        /\ vq' = q
        /\ venv' = env
        /\ vout' = verify_question_with_rag(q, env)
    /\ vimpl' = "main"
    /\ vpc' = "done"
    /\ UNCHANGED <<gvars, nvars, cvars, xvars>>

VerifyQG ==
    /\ vpc = "idle"
    /\ \E q \in Questions, env \in Envs :
        /\ vq' = q
        /\ venv' = env
        /\ vout' = verify_question(q, env)
    /\ vimpl' = "qg"
    /\ vpc' = "done"
    /\ UNCHANGED <<gvars, nvars, cvars, xvars>>

VerifyNext == VerifyMain \/ VerifyQG

SpecVerify == VerifyInit /\ [][VerifyNext]_vars


-----------------------------------------------------------------------------
(* check_answers.normalize_answer.  A string is a sequence of characters. *)

Punctuation == {".", ",", "!", "?", ";", ":"}

\* the characters of the strings drawn: two letters, the space, the parentheses
\* and one punctuation mark
Alphabet == {"a", "B", " ", "(", ")", "."}

\* ans.lower()
lower(s) == [k \in 1..Len(s) |-> IF s[k] = "B" THEN "b" ELSE s[k]]

\* the first position >= k of s that holds no whitespace, Len(s) + 1 if none
RECURSIVE skip_whitespace(_, _)
skip_whitespace(s, k) ==
    IF k <= Len(s) /\ s[k] = " " THEN skip_whitespace(s, k + 1) ELSE k

\* the first position >= k of s that holds ")", 0 if none
RECURSIVE find_close(_, _)
find_close(s, k) ==
    IF k > Len(s) THEN 0
    ELSE IF s[k] = ")" THEN k
    ELSE find_close(s, k + 1)

\* re.sub(r'\s*\([^)]*\)', '', s) from position k on: at each position the leftmost
\* match is whitespace, "(", anything but ")", and the first ")" after it
RECURSIVE sub_parentheticals(_, _)
sub_parentheticals(s, k) ==
    IF k > Len(s) THEN <<>>
    ELSE LET open == skip_whitespace(s, k)
             close == IF open <= Len(s) /\ s[open] = "(" THEN find_close(s, open + 1) ELSE 0
         IN IF close # 0
            THEN sub_parentheticals(s, close + 1)
            ELSE <<s[k]>> \o sub_parentheticals(s, k + 1)

\* s.split() from position k on, word being the word read so far
RECURSIVE split(_, _, _)
split(s, k, word) ==
    IF k > Len(s) THEN (IF word = <<>> THEN <<>> ELSE <<word>>)
    ELSE IF s[k] = " "
         THEN (IF word = <<>> THEN <<>> ELSE <<word>>) \o split(s, k + 1, <<>>)
         ELSE split(s, k + 1, Append(word, s[k]))

\* ' '.join(words)
RECURSIVE join(_)
join(words) ==
    IF words = <<>> THEN <<>>
    ELSE IF Len(words) = 1 THEN words[1]
    ELSE words[1] \o <<" ">> \o join(Tail(words))

NotPunctuation(c) == c \notin Punctuation

\* re.sub(r'[.,!?;:]', '', s)
sub_punctuation(s) == SelectSeq(s, NotPunctuation)

normalize_answer(ans) ==
    sub_punctuation(join(split(sub_parentheticals(lower(ans), 1), 1, <<>>)))

\* s.strip()
strip(s) ==
    LET first == skip_whitespace(s, 1)
        words == split(s, 1, <<>>)
    IN IF words = <<>> THEN <<>>
       ELSE LET last == CHOOSE k \in 1..Len(s) :
                            s[k] # " " /\ \A j \in (k + 1)..Len(s) : s[j] = " "
            IN SubSeq(s, first, last)

-----------------------------------------------------------------------------
(* SpecNorm: normalize_answer applied to every short string, and again to its result *)

\* the longest string drawn
MaxLen == 4

Strings == UNION {[1..n -> Alphabet] : n \in 0..MaxLen}

NormInit ==
    /\ npc = "input"
    /\ nx \in Strings
    /\ n1 = <<>>
    /\ n2 = <<>>
    /\ VerifyIdle
    /\ GenIdle
    /\ GradeIdle
    /\ ChunkIdle

NormalizeOnce ==
    /\ npc = "input"
    /\ n1' = normalize_answer(nx)
    /\ npc' = "once"
    /\ UNCHANGED <<nx, n2, vvars, gvars, cvars, xvars>>

NormalizeTwice ==
    /\ npc = "once"
    /\ n2' = normalize_answer(n1)
    /\ npc' = "twice"
    /\ UNCHANGED <<nx, n1, vvars, gvars, cvars, xvars>>

NormNext == NormalizeOnce \/ NormalizeTwice

SpecNorm == NormInit /\ [][NormNext]_vars

\* s without the punctuation at its end
RECURSIVE C11_StripTrailing(_)
C11_StripTrailing(s) ==
    IF s # <<>> /\ s[Len(s)] \in Punctuation
    THEN C11_StripTrailing(SubSeq(s, 1, Len(s) - 1))
    ELSE s

\* C11: normalize_answer is: lowercase, remove each parenthetical, collapse every
\* whitespace run to one space, and strip the punctuation . , ! ? ; : from the end
\* of the string only, so punctuation inside an answer is preserved.
C11_TrailingPunctuationOnly ==
    (npc # "input") =>
        n1 = C11_StripTrailing(join(split(sub_parentheticals(lower(nx), 1), 1, <<>>)))

\* C10: normalize_answer is idempotent: normalizing a normalized string changes nothing.
C10_Idempotent == (npc = "twice") => n2 = n1

-----------------------------------------------------------------------------
(* SpecGrade: one grading request, main.check_answers.  A step is one      *)
(* iteration of the loop over the answers, then the aggregate feedback.    *)

\* the most answers a request submits
MaxAnswers == 2

\* the answers submitted: "a", " B. " and "b"
AnswerTexts == {<<"a">>, <<" ", "B", ".", " ">>, <<"b">>}

\* the reference answer of every submission
ReferenceTexts == {<<"b">>}

\* "absent": the submission has no question_type key
Submissions ==
    [user_answer : AnswerTexts, correct_answer : ReferenceTexts,
     question_type : {"short_answer", "multiple_choice", "absent"}]

AnswerLists == UNION {[1..n -> Submissions] : n \in 0..MaxAnswers}

\* the cosine similarity of the two normalized answers, in hundredths
GradeSimilarities == {Hundredths(40), Hundredths(60), Hundredths(65), Hundredths(80),
                      Hundredths(90)}

\* what the models answer while one answer is graded: the embedding model raises
\* or the similarity is as given, and the feedback call raises or answers
GradeEnvs ==
    [embed_ok : {TRUE}, similarity : GradeSimilarities, feedback_ok : BOOLEAN]
    \cup [embed_ok : {FALSE}, similarity : {0}, feedback_ok : {TRUE}]

\* answer.get("question_type", "unknown")
question_type_of(answer) ==
    IF answer.question_type = "absent" THEN "unknown" ELSE answer.question_type

\* mutant: full credit only above 0.8
similarity_verdict_strict(similarity) ==
    IF similarity > Hundredths(80) THEN "true"
    ELSE IF similarity >= Hundredths(60) THEN "partial"
    ELSE "false"

\* lines 383-386: is_correct after the similarity check of a short answer
similarity_verdict(similarity) ==
    IF similarity >= Hundredths(80) THEN "true"
    ELSE IF similarity >= Hundredths(60) THEN "partial"
    ELSE "false"

\* lines 389-396
score_of(is_correct) ==
    IF is_correct = "true" THEN Hundredths(100)
    ELSE IF is_correct = "partial" THEN Hundredths(50)
    ELSE 0

\* lines 364-425, the body of the loop for one answer: Return(<<the processed
\* answer, was a similarity computed>>) or Raise
grade(answer, env) ==
    LET user_answer == strip(answer.user_answer)
        correct_answer == strip(answer.correct_answer)
        question_type == question_type_of(answer)
        exact == normalize_answer(user_answer) = normalize_answer(correct_answer)
        compute == question_type = "short_answer" /\ ~exact
        similarity == IF compute THEN env.similarity ELSE 0
        is_correct == IF compute THEN similarity_verdict(similarity)
                      ELSE IF exact THEN "true" ELSE "false"
        base == [user_answer |-> user_answer, correct_answer |-> correct_answer,
                 is_correct |-> is_correct, score |-> score_of(is_correct),
                 feedback |-> "feedback"]
    IN IF compute /\ ~env.embed_ok THEN Raise("EmbeddingError")
       ELSE IF ~env.feedback_ok THEN Raise("ModelError")
       ELSE IF question_type = "short_answer" /\ is_correct # "true"
            THEN Return(<<[user_answer |-> base.user_answer,
                           correct_answer |-> base.correct_answer,
                           is_correct |-> base.is_correct, score |-> base.score,
                           feedback |-> base.feedback, similarity |-> similarity]>>
                        \o <<compute>>)
            ELSE Return(<<base, compute>>)

GradeInit ==
    /\ cpc = "grading"
    /\ answers \in AnswerLists
    /\ a = 1
    /\ processed_answers = <<>>
    /\ grade_total = 0
    /\ similarity_log = <<>>
    /\ grade_error = NoError
    /\ VerifyIdle
    /\ GenIdle
    /\ NormIdle
    /\ ChunkIdle

\* one iteration of: for answer in answers; any exception leaves through
\* except Exception (line 447) as an HTTPException 500
GradeAnswer ==
    /\ cpc = "grading"
    /\ a <= Len(answers)
    /\ \E env \in GradeEnvs :
        LET out == grade(answers[a], env) IN
        IF out.kind = "raise" THEN
            /\ cpc' = "failed"
            /\ grade_error' = [type |-> "HTTPException", cause |-> out.exc]
            /\ UNCHANGED <<a, processed_answers, grade_total, similarity_log>>
        ELSE
            /\ processed_answers' = Append(processed_answers, out.value[1])
            /\ similarity_log' = Append(similarity_log,
                    [computed |-> out.value[2],
                     similarity |-> IF out.value[2] THEN env.similarity ELSE 0])
            /\ grade_total' = grade_total + out.value[1].score
            /\ a' = a + 1
            /\ UNCHANGED <<cpc, grade_error>>
    /\ UNCHANGED <<answers, vvars, gvars, nvars, xvars>>

\* lines 428-445: the percentage, the aggregate feedback call, the return
FinishGrading ==
    /\ cpc = "grading"
    /\ a > Len(answers)
    /\ \E feedback_ok \in BOOLEAN :
        IF Len(answers) = 0 THEN
            /\ cpc' = "failed"
            /\ grade_error' = [type |-> "HTTPException", cause |-> "ZeroDivisionError"]
        ELSE IF ~feedback_ok THEN
            /\ cpc' = "failed"
            /\ grade_error' = [type |-> "HTTPException", cause |-> "ModelError"]
        ELSE
            /\ cpc' = "returned"
            /\ UNCHANGED grade_error
    /\ UNCHANGED <<answers, a, processed_answers, grade_total, similarity_log>>
    /\ UNCHANGED <<vvars, gvars, nvars, xvars>>

GradeNext == GradeAnswer \/ FinishGrading

SpecGrade == GradeInit /\ [][GradeNext]_vars

-----------------------------------------------------------------------------
(* SpecChunk: one call of RAGService.extract_relevant_context *)

\* the most words of a document
MaxWords == 7

\* the largest chunk_size
MaxChunkSize == 4

\* the largest top_k
MaxTopK == 3

\* the similarities of a chunk to the query, in hundredths
RankSimilarities == {Hundredths(20), Hundredths(50), Hundredths(80)}

\* mutant: the windows do not overlap
stride_whole(size) == size

\* chunk_size//2, the step of the range
stride(size) == size \div 2

Min(x, y) == IF x <= y THEN x ELSE y

\* words[offset:offset + size], offset counted from 0
slice(words, offset, size) ==
    SubSeq(words, offset + 1, Min(offset + size, Len(words)))

\* for i in range(offset, len(words), step): chunks.append(words[i:i + size])
RECURSIVE chunks_from(_, _, _, _)
chunks_from(words, offset, step, size) ==
    IF offset >= Len(words) THEN <<>>
    ELSE <<slice(words, offset, size)>> \o chunks_from(words, offset + step, step, size)

\* mutant: an element is put before the elements it ties with
insert_before_ties(sorted, x) ==
    LET before == Cardinality({j \in 1..Len(sorted) : sorted[j].similarity > x.similarity})
    IN SubSeq(sorted, 1, before) \o <<x>> \o SubSeq(sorted, before + 1, Len(sorted))

\* list.sort(key=similarity, reverse=True) is stable: an element goes after the
\* elements of greater or equal similarity that precede it in the list
insert(sorted, x) ==
    LET before == Cardinality({j \in 1..Len(sorted) : sorted[j].similarity >= x.similarity})
    IN SubSeq(sorted, 1, before) \o <<x>> \o SubSeq(sorted, before + 1, Len(sorted))

\* chunk_similarities.sort(key=lambda x: x[1], reverse=True), the first n elements
RECURSIVE sort(_, _)
sort(pairs, n) == IF n = 0 THEN <<>> ELSE insert(sort(pairs, n - 1), pairs[n])

\* chunk_similarities[:k], k >= 0
first(pairs, k) == SubSeq(pairs, 1, Min(k, Len(pairs)))

ChunkInit ==
    /\ xpc = "call"
    /\ document \in {[k \in 1..n |-> k] : n \in 0..MaxWords}
    /\ chunk_size \in 1..MaxChunkSize
    /\ top_k \in 0..MaxTopK
    /\ chunks = <<>>
    /\ similarities = <<>>
    /\ relevant = <<>>
    /\ xerror = ""
    /\ VerifyIdle
    /\ GenIdle
    /\ NormIdle
    /\ GradeIdle

\* the whole of extract_relevant_context: range() raises ValueError on a step of
\* 0; no chunk, no embedding call; otherwise the embedding model raises or gives
\* each chunk a similarity, and the top_k chunks of the sorted list are returned
ExtractRelevantContext ==
    /\ xpc = "call"
    /\ IF stride(chunk_size) = 0 THEN
            /\ xpc' = "failed"
            /\ xerror' = "ValueError"
            /\ UNCHANGED <<chunks, similarities, relevant>>
       ELSE LET made == chunks_from(document, 0, stride(chunk_size), chunk_size) IN
            /\ chunks' = made
            /\ IF made = <<>> THEN
                    /\ xpc' = "returned"
                    /\ UNCHANGED <<similarities, relevant, xerror>>
               ELSE \E embed_ok \in BOOLEAN :
                    IF ~embed_ok THEN
                        /\ xpc' = "failed"
                        /\ xerror' = "EmbeddingError"
                        /\ UNCHANGED <<similarities, relevant>>
                    ELSE \E sims \in [1..Len(made) -> RankSimilarities] :
                        LET chunk_similarities ==
                                [k \in 1..Len(made) |->
                                    [chunk |-> made[k], similarity |-> sims[k]]]
                            sorted == sort(chunk_similarities, Len(chunk_similarities))
                            top == first(sorted, top_k)
                        IN /\ similarities' = sims
                           /\ relevant' = [k \in 1..Len(top) |-> top[k].chunk]
                           /\ xpc' = "returned"
                           /\ UNCHANGED xerror
    /\ UNCHANGED <<document, chunk_size, top_k>>
    /\ UNCHANGED <<vvars, gvars, nvars, cvars>>

ChunkNext == ExtractRelevantContext

SpecChunk == ChunkInit /\ [][ChunkNext]_vars

-----------------------------------------------------------------------------
(* Spec: one generation request, main.generate_questions or                *)
(* QuestionGenerator.generate_questions.  A step is taken at each call of *)
(* the generation model and at each iteration of the verification loop.   *)

\* the longest "questions" list the generation model returns
MaxQuestions == 2

\* the questions of a response
PipelineQuestions == {q \in Questions : q.explanation # "empty"}

QuestionLists == UNION {[1..n -> PipelineQuestions] : n \in 0..MaxQuestions}

\* a call of the generation model: it raises, or its text does not parse as JSON,
\* or it parses but has no "questions" key, or it holds a list of questions
GenReplies ==
    [kind : {"raise", "unparseable", "no_questions"}, questions : {<<>>}]
    \cup [kind : {"questions"}, questions : QuestionLists]

\* what the models answer during one verification of the loop
PipelineEnvs ==
    {e \in Envs :
        \/ ~e.embed_ok
        \/ /\ e.q_similarity = e.a_similarity
           /\ e.a_similarity = e.e_similarity
           /\ \/ e.judge.kind = "unparseable" /\ e.q_similarity \in {Hundredths(55), Hundredths(65)}
              \/ e.judge.kind \in {"raise", "incomplete"} /\ e.q_similarity = Hundredths(65)
              \/ /\ e.judge.kind = "full"
                 /\ e.q_similarity = Hundredths(65)
                 /\ \/ /\ e.judge.result = "Y"
                       /\ e.judge.rating = "appropriate"
                       /\ e.judge.average_score = Hundredths(90)
                    \/ /\ e.judge.result = "N"
                       /\ e.judge.rating = "inappropriate"
                       /\ e.judge.average_score = Hundredths(40)}

\* the exception a request ends with: the endpoint wraps every exception in an
\* HTTPException 500 (except Exception, main.py:342); QuestionGenerator raises
\* ValueError for the retry's parse failure and lets anything else through
Failure(which, cause) ==
    IF which = "main" THEN [type |-> "HTTPException", cause |-> cause]
    ELSE IF cause = "JSONDecodeError" THEN [type |-> "ValueError", cause |-> cause]
    ELSE [type |-> cause, cause |-> cause]

\* mutant: a parse failure always asks again
AfterParseFailure_again(ncalls) == "retry"

\* where a json.JSONDecodeError of the ncalls-th response leads: the first is
\* caught by the except clause that retries, the second raises
AfterParseFailure(ncalls) == IF ncalls = 1 THEN "retry" ELSE "failed"

\* mutant: every verified question is kept
accepted_always(verification) == TRUE

\* if verification["verification"]["is_valid"]
accepted(verification) == verification.is_valid

\* q["verification"] = verification["verification"]
SetVerification(q, verification) ==
    [k \in DOMAIN q \cup {"verification"} |->
        IF k = "verification" THEN verification ELSE q[k]]

GenInit ==
    /\ impl \in {"main", "qg"}
    /\ pc = "request"
    /\ calls = <<>>
    /\ parses = <<>>
    /\ generated_questions = <<>>
    /\ i = 1
    /\ verified_questions = <<>>
    /\ verifications = <<>>
    /\ error = NoError

\* the model's reply to a generation call, parsed
Receive(prompt, reply) ==
    /\ calls' = Append(calls, prompt)
    /\ IF reply.kind = "raise" THEN
            /\ pc' = "failed"
            /\ error' = Failure(impl, "ModelError")
            /\ UNCHANGED <<parses, generated_questions>>
       ELSE IF reply.kind = "unparseable" THEN
            /\ parses' = Append(parses, FALSE)
            /\ pc' = AfterParseFailure(Len(calls'))
            /\ error' = IF pc' = "failed" THEN Failure(impl, "JSONDecodeError") ELSE error
            /\ UNCHANGED generated_questions
       ELSE IF reply.kind = "no_questions" THEN
            /\ parses' = Append(parses, TRUE)
            /\ pc' = "failed"
            /\ error' = Failure(impl, "KeyError")
            /\ UNCHANGED generated_questions
       ELSE
            /\ parses' = Append(parses, TRUE)
            /\ pc' = "loop"
            /\ generated_questions' = reply.questions
            /\ UNCHANGED error
    /\ UNCHANGED <<impl, i, verified_questions, verifications>>
    /\ UNCHANGED <<vvars, nvars, cvars, xvars>>

\* response = model.generate_content(prompt); json.loads(result_text)
Generate ==
    /\ pc = "request"
    /\ \E reply \in GenReplies : Receive("generation", reply)

\* except json.JSONDecodeError: response = model.generate_content(retry_prompt)
Retry ==
    /\ pc = "retry"
    /\ \E reply \in GenReplies : Receive("reformat", reply)

\* one iteration of: for q in generated_questions["questions"]
VerifyStep ==
    /\ pc = "loop"
    /\ i <= Len(generated_questions)
    /\ \E env \in PipelineEnvs :
        LET out == Verify(impl, generated_questions[i], env) IN
        /\ verifications' = Append(verifications, [index |-> i, out |-> out])
        /\ IF out.kind = "raise" THEN
                /\ pc' = "failed"
                /\ error' = Failure(impl, out.exc)
                /\ UNCHANGED <<generated_questions, verified_questions, i>>
           ELSE IF accepted(out.value) THEN
                /\ generated_questions' =
                      [generated_questions EXCEPT ![i] = SetVerification(@, out.value)]
                /\ verified_questions' = Append(verified_questions, i)
                /\ i' = i + 1
                /\ UNCHANGED <<pc, error>>
           ELSE
                /\ i' = i + 1
                /\ UNCHANGED <<pc, error, generated_questions, verified_questions>>
    /\ UNCHANGED <<impl, calls, parses>>
    /\ UNCHANGED <<vvars, nvars, cvars, xvars>>

\* return {"questions": verified_questions}
ReturnQuestions ==
    /\ pc = "loop"
    /\ i > Len(generated_questions)
    /\ pc' = "returned"
    /\ UNCHANGED <<impl, calls, parses, generated_questions, i, verified_questions,
                   verifications, error>>
    /\ UNCHANGED <<vvars, nvars, cvars, xvars>>

\* the list the request returns: verified_questions holds the dicts themselves
Returned == [k \in 1..Len(verified_questions) |-> generated_questions[verified_questions[k]]]

Init == GenInit /\ VerifyIdle /\ NormIdle /\ GradeIdle /\ ChunkIdle

Next == Generate \/ Retry \/ VerifyStep \/ ReturnQuestions

Spec == Init /\ [][Next]_vars

-----------------------------------------------------------------------------
(* Properties of a generation request (Spec) *)

Finished == pc \in {"returned", "failed"}

\* C1: the generation prompt is sent once; the reformatting prompt is sent if and
\* only if the first response failed to parse as JSON; at most two generation calls
\* are made; a retry response that fails to parse ends the request with the
\* generation-failed error, and no third call is made.
C1_RetryPolicy ==
    /\ Len(calls) <= 2
    /\ Len(parses) <= Len(calls)
    /\ (Len(calls) >= 1 => calls[1] = "generation")
    /\ (Len(calls) = 2 => calls[2] = "reformat" /\ parses[1] = FALSE)
    /\ (pc = "request") = (calls = <<>>)
    /\ (pc = "retry") => (calls = <<"generation">> /\ parses = <<FALSE>>)
    /\ (Finished /\ Len(parses) >= 1 /\ parses[1] = FALSE) => Len(calls) = 2
    /\ (parses = <<FALSE, FALSE>>) =>
          /\ pc = "failed"
          /\ error.cause = "JSONDecodeError"
          /\ error.type = IF impl = "main" THEN "HTTPException" ELSE "ValueError"

\* C1 witness: both responses failed to parse and the request has failed after
\* exactly two calls
C1_RetryExhausted ==
    /\ pc = "failed"
    /\ calls = <<"generation", "reformat">>
    /\ parses = <<FALSE, FALSE>>

\* the positions whose verification returned is_valid = true
ValidPositions ==
    {verifications[n].index : n \in {m \in 1..Len(verifications) :
        /\ verifications[m].out.kind = "return"
        /\ verifications[m].out.value.is_valid = TRUE}}

\* C6: the list a successful request returns is the subsequence, in the original
\* order, of the parsed questions whose verification has is_valid = true; every
\* parsed question was verified exactly once; a returned question carries its own
\* verification result; the other questions carry no verification field.
C6_ReturnsValidSubsequence ==
    (pc = "returned") =>
        /\ Len(verifications) = Len(generated_questions)
        /\ \A n \in 1..Len(verifications) : verifications[n].index = n
        /\ \A k \in 1..Len(verified_questions) :
              /\ verified_questions[k] \in ValidPositions
              /\ k > 1 => verified_questions[k - 1] < verified_questions[k]
        /\ {verified_questions[k] : k \in 1..Len(verified_questions)} = ValidPositions
        /\ \A n \in 1..Len(generated_questions) :
              IF n \in ValidPositions
              THEN /\ "verification" \in DOMAIN generated_questions[n]
                   /\ generated_questions[n].verification = verifications[n].out.value
                   /\ generated_questions[n].verification.is_valid = TRUE
              ELSE "verification" \notin DOMAIN generated_questions[n]
        /\ \A k \in 1..Len(Returned) : Returned[k].verification.is_valid = TRUE

\* C6 witness: a request returned the second of two questions and dropped the first
C6_SecondOfTwoReturned ==
    /\ pc = "returned"
    /\ Len(generated_questions) = 2
    /\ verified_questions = <<2>>
    /\ "verification" \notin DOMAIN generated_questions[1]
    /\ Len(Returned) = 1
    /\ Returned[1].verification.is_valid = TRUE

\* C7: a request fails only when the model's output could not be parsed after the
\* retry; a response that parses but has no questions list, and a question whose
\* verification errors, still end in a returned list.  (A generation call that
\* itself raises is left aside.)
C7_FailsOnlyUnparsed ==
    (pc = "failed" /\ error.cause # "ModelError") => parses = <<FALSE, FALSE>>

-----------------------------------------------------------------------------
(* Properties of a grading request (SpecGrade) *)

\* the verdict and score C8 gives for the n-th answer, from the normalized answers,
\* the question type and the similarity drawn for it
C8_Expected(n) ==
    LET sub == answers[n]
        same == normalize_answer(strip(sub.user_answer)) =
                normalize_answer(strip(sub.correct_answer))
        sim == similarity_log[n].similarity
    IN IF same THEN <<"true", Hundredths(100), FALSE>>
       ELSE IF sub.question_type = "short_answer" THEN
            IF sim >= Hundredths(80) THEN <<"true", Hundredths(100), TRUE>>
            ELSE IF sim >= Hundredths(60) THEN <<"partial", Hundredths(50), TRUE>>
            ELSE <<"false", 0, TRUE>>
       ELSE <<"false", 0, FALSE>>

C9_OneResultPerAnswer ==
    (cpc \in {"returned", "failed"} /\ answers # <<>>) =>
        /\ cpc = "returned"
        /\ Len(processed_answers) = Len(answers)

-----------------------------------------------------------------------------
(* Properties of one verifier call (SpecVerify) *)

VerifyDone == vpc = "done"

\* a result of the fused path or of the judgment-parse-failure fallback path
ScoredResult(r) == "embedding_similarity" \in DOMAIN r

\* a failure while computing the embedding signal or the judgment signal
SignalFailure ==
    \/ ~venv.embed_ok
    \/ ~vq.dict
    \/ vq.question = "absent"
    \/ venv.judge.kind \in {"raise", "incomplete"}

\* both signals can be computed: the embedding model answers and the question has
\* the keys the verifier subscripts (verify_question_with_rag subscripts
\* "explanation", QuestionGenerator reads it with .get)
SignalsComputed ==
    /\ venv.embed_ok
    /\ vq.dict
    /\ vq.question = "text"
    /\ (vimpl = "main" => vq.explanation # "absent")

\* C2: a failure while computing either signal never propagates out of the verifier:
\* the call returns a result with is_valid = false and an error field, in both
\* verify_question_with_rag and QuestionGenerator.verify_question.
C2_FailureNeverPropagates ==
    (VerifyDone /\ SignalFailure) =>
        /\ vout.kind = "return"
        /\ vout.value.is_valid = FALSE
        /\ "error" \in DOMAIN vout.value

C4_H == IF venv.judge.result = "Y" THEN 100 ELSE 0

C4_Q ==
    CASE venv.judge.rating = "very_appropriate" -> 100
      [] venv.judge.rating = "appropriate" -> 70
      [] venv.judge.rating = "inappropriate" -> 30

\* C4: when the judgment parses (and the signals were computed), the result is the
\* fused one with total_score = 0.4*h + 0.3*q + 0.3*s, whatever the embedding
\* similarities are; Y, appropriate, 0.9 gives 0.88 and is_valid = true.
C4_WeightedTotal ==
    (/\ VerifyDone
     /\ SignalsComputed
     /\ venv.judge.kind = "full"
     /\ venv.judge.rating \in {"very_appropriate", "appropriate", "inappropriate"}) =>
        /\ vout.kind = "return"
        /\ "total_score" \in DOMAIN vout.value
        /\ 10 * vout.value.total_score =
              4 * Hundredths(C4_H) + 3 * Hundredths(C4_Q) + 3 * venv.judge.average_score
        /\ (/\ venv.judge.result = "Y"
            /\ venv.judge.rating = "appropriate"
            /\ venv.judge.average_score = Hundredths(90)) =>
               /\ vout.value.total_score = Hundredths(88)
               /\ vout.value.is_valid

\* C4 witness: the spec's example, with embedding similarities far below 0.6
C4_Example ==
    /\ VerifyDone
    /\ vout.kind = "return"
    /\ "hallucination_check" \in DOMAIN vout.value
    /\ venv.judge.result = "Y"
    /\ venv.judge.rating = "appropriate"
    /\ venv.judge.average_score = Hundredths(90)
    /\ venv.q_similarity = Hundredths(0 - 30)
    /\ venv.a_similarity = Hundredths(0 - 30)
    /\ venv.e_similarity = Hundredths(0 - 30)
    /\ vout.value.total_score = Hundredths(88)

\* C5: when the judgment response fails to parse, the question is scored on the
\* embedding signal alone: total_score is the embedding average, is_valid is
\* (average >= 0.6), an error marker is present and the judgment fields are not;
\* an average of 0.55 gives total_score 0.55 and is_valid = false.
C5_FallbackOnEmbedding ==
    (/\ VerifyDone
     /\ SignalsComputed
     /\ venv.judge.kind = "unparseable") =>
        /\ vout.kind = "return"
        /\ DOMAIN vout.value = {"embedding_similarity", "total_score", "is_valid", "error"}
        /\ vout.value.total_score = vout.value.embedding_similarity.average
        /\ vout.value.is_valid = (vout.value.embedding_similarity.average >= Hundredths(60))
        /\ (/\ venv.q_similarity = Hundredths(55)
            /\ venv.a_similarity = Hundredths(55)
            /\ venv.e_similarity = Hundredths(55)) =>
               /\ vout.value.total_score = Hundredths(55)
               /\ ~vout.value.is_valid

\* C5 witness: the spec's example
C5_Example ==
    /\ VerifyDone
    /\ venv.judge.kind = "unparseable"
    /\ vout.kind = "return"
    /\ "error" \in DOMAIN vout.value
    /\ "total_score" \in DOMAIN vout.value
    /\ vout.value.total_score = Hundredths(55)
    /\ ~vout.value.is_valid

\* the mean C12 gives: over question, answer and explanation when the explanation
\* is a text, over question and answer when it is empty or missing
C12_Mean ==
    IF vq.explanation = "text"
    THEN (venv.q_similarity + venv.a_similarity + venv.e_similarity) \div 3
    ELSE (venv.q_similarity + venv.a_similarity) \div 2

\* C12: in both verifiers the embedding signal's average is the mean of the
\* available components: 3-way with a non-empty explanation, 2-way with an empty
\* or missing one.
C12_AverageOfAvailable ==
    (VerifyDone /\ vout.kind = "return" /\ ScoredResult(vout.value)) =>
        vout.value.embedding_similarity.average = C12_Mean

\* the outcomes of the two verifiers agree on total_score, is_valid and the
\* presence of an error marker
C16_Same(m, g) ==
    /\ m.kind = "return"
    /\ g.kind = "return"
    /\ ("total_score" \in DOMAIN m.value) = ("total_score" \in DOMAIN g.value)
    /\ ("total_score" \in DOMAIN m.value) => m.value.total_score = g.value.total_score
    /\ m.value.is_valid = g.value.is_valid
    /\ ("error" \in DOMAIN m.value) = ("error" \in DOMAIN g.value)

\* C13: every result that carries a total_score has it in [0, 1], whatever
\* average_score the judgment reports and whatever the cosine similarities are.
C13_TotalScoreInUnitInterval ==
    (VerifyDone /\ vout.kind = "return" /\ "total_score" \in DOMAIN vout.value) =>
        /\ vout.value.total_score >= 0
        /\ vout.value.total_score <= Hundredths(100)

\* C16: main.verify_question_with_rag and QuestionGenerator.verify_question give,
\* for the same question, similarities and judgment response, the same
\* total_score, the same is_valid and the same presence of an error marker
\* (judgment parseable, unparseable or lacking a key; explanation a text, empty or
\* absent).
C16_VerifiersAgree ==
    (/\ VerifyDone
     /\ venv.embed_ok
     /\ vq.dict
     /\ vq.question = "text"
     /\ venv.judge.kind \in {"full", "unparseable", "incomplete"}) =>
        C16_Same(verify_question_with_rag(vq, venv), verify_question(vq, venv))

\* C17: on the fused path a question whose hallucination verdict is not Y is
\* accepted only with the rating very_appropriate and an average_score of at
\* least 1.0, for every average_score the judgment model can report.
C17_HallucinatedNeedsTopMarks ==
    (/\ VerifyDone
     /\ vout.kind = "return"
     /\ "hallucination_check" \in DOMAIN vout.value
     /\ vout.value.hallucination_check.result # "Y"
     /\ vout.value.is_valid) =>
        /\ vout.value.quality_check.rating = "very_appropriate"
        /\ vout.value.semantic_consistency.average_score >= Hundredths(100)

\* the call got as far as building the chunks: range() accepted its step
Chunked == xpc # "call" /\ xerror # "ValueError"

\* the words [offset, min(offset + chunk_size, n)) of the document
C14_Window(offset) ==
    LET n == Len(document)
        end == IF offset + chunk_size <= n THEN offset + chunk_size ELSE n
    IN [j \in 1..(end - offset) |-> document[offset + j]]

C15_Index(c) == CHOOSE k \in 1..Len(chunks) : chunks[k] = c

\* chunk x ranks before chunk y: more similar, or as similar and earlier
C15_Before(x, y) ==
    \/ similarities[x] > similarities[y]
    \/ similarities[x] = similarities[y] /\ x < y

\* C15: a call that returns gives exactly min(top_k, number of chunks) chunk
\* texts, none for an empty document; they are in descending similarity, equal
\* similarities in document order, and every chunk left out ranks after every
\* chunk returned.
C15_TopKStableDescending ==
    (xpc = "returned") =>
        /\ Len(relevant) = (IF top_k <= Len(chunks) THEN top_k ELSE Len(chunks))
        /\ (document = <<>>) => relevant = <<>>
        /\ \A j \in 1..Len(relevant) : \E k \in 1..Len(chunks) : chunks[k] = relevant[j]
        /\ \A j, k \in 1..Len(relevant) :
                j < k => C15_Before(C15_Index(relevant[j]), C15_Index(relevant[k]))
        /\ \A c \in 1..Len(chunks) :
                (\A j \in 1..Len(relevant) : relevant[j] # chunks[c]) =>
                    \A j \in 1..Len(relevant) : C15_Before(C15_Index(relevant[j]), c)

\* three chunks, the second and third tie above the first, top_k = 2: the tied
\* pair comes back in document order and the first chunk is left out
C15_TieKeptInOrder ==
    /\ xpc = "returned"
    /\ Len(chunks) = 3
    /\ top_k = 2
    /\ similarities[2] = similarities[3]
    /\ similarities[1] < similarities[2]
    /\ relevant = <<chunks[2], chunks[3]>>

====
